---- MODULE Spec2Model ----
(***************************************************************************)
(* The ShopRAG orchestrator: the default command of the CLI, which loads   *)
(* the Shops and RAGs of shoprag.json, resolves credentials and the        *)
(* permissions of unofficial plugins, initializes every plugin, gathers    *)
(* the updates of the Shops, replays them to the RAGs and writes           *)
(* shoprag-lock.json.  One run of the command is a sequence of steps, one  *)
(* per awaited plugin call or prompt; runs follow one another and share    *)
(* the three files on disk.                                                *)
(***************************************************************************)
EXTENDS Integers, Sequences, FiniteSets, TLC

(***************************************************************************)
(* Bounds of the model.                                                    *)
(***************************************************************************)
MaxRuns == 2
MaxClock == 2
MaxShops == 2
MaxRags == 2
MaxDiff == 2
MaxEmitted == 3
MaxFailures == 1

(***************************************************************************)
(* The plugins of the model and what they declare.                         *)
(***************************************************************************)
ShopPlugins == {"demo", "UNOFFICIAL:x"}
RagPlugins == {"dir", "UNOFFICIAL:y"}
CredNames == {"k1", "k2"}
Secrets == {"s"}
FileIds == {"f1", "7"}
Contents == {"hi"}
Undefined == "undefined"

\* from.startsWith("UNOFFICIAL:")
IsUnofficial(name) == name \in {"UNOFFICIAL:x", "UNOFFICIAL:y"}

\* Object.keys(plugin.requiredCredentials()), in the object's key order
requiredCredentials(plugin) ==
    CASE plugin = "demo" -> <<"k1">>
      [] plugin = "UNOFFICIAL:x" -> <<"k1", "k2">>
      [] plugin = "dir" -> <<>>
      [] plugin = "UNOFFICIAL:y" -> <<"k2">>

(***************************************************************************)
(* Helpers: sequences as JavaScript arrays, functions as plain objects.    *)
(***************************************************************************)
Range(s) == {s[n] : n \in DOMAIN s}

Min(a, b) == IF a < b THEN a ELSE b
Max(a, b) == IF a > b THEN a ELSE b

\* Array.prototype.includes
Includes(arr, x) == x \in Range(arr)

\* A variant: splice(start), which removes every element from start on
SpliceRest(arr, start) ==
    LET len == Len(arr)
        from == IF start < 0 THEN Max(len + start, 0) ELSE Min(start, len)
    IN  SubSeq(arr, 1, from)

\* Array.prototype.splice(start, 1), start a JavaScript index (0-based; a
\* negative start counts from the end of the array)
Splice1(arr, start) ==
    LET len == Len(arr)
        from == IF start < 0 THEN Max(len + start, 0) ELSE Min(start, len)
    IN  IF from >= len THEN arr
        ELSE [n \in 1..(len - 1) |-> IF n <= from THEN arr[n] ELSE arr[n + 1]]

\* obj[key] = value
Put(obj, key, value) == (key :> value) @@ obj

\* delete obj[key]
Del(obj, key) == [k \in (DOMAIN obj) \ {key} |-> obj[k]]

EmptyObj == <<>>

\* All sequences over S of length lo..hi
SeqsOf(S, lo, hi) == UNION {[1..n -> S] : n \in lo..hi}

(***************************************************************************)
(* An object whose key order matters (aggregatedUpdates, shopUpdates) is a *)
(* sequence of entries [id, action, content] with distinct ids, in         *)
(* insertion order, as Object.entries lists it.                            *)
(***************************************************************************)
Keys(entries) == {entries[n].id : n \in DOMAIN entries}

IndexOf(entries, id) == CHOOSE n \in DOMAIN entries : entries[n].id = id

Get(entries, id) == entries[IndexOf(entries, id)]

\* The number a key is if it is an array index (the decimal form of an
\* integer from 0), -1 if it is any other string
ArrayIndex(key) == IF key = "7" THEN 7 ELSE -1

\* The order in which Object.entries and for-in give the keys of an object:
\* the array indices by their value, then the other strings as they were
\* first set
ObjectOrder(entries) ==
    \A m, n \in DOMAIN entries :
        m < n => /\ ArrayIndex(entries[n].id) >= 0 => ArrayIndex(entries[m].id) >= 0
                 /\ ArrayIndex(entries[m].id) >= 0 =>
                        \/ ArrayIndex(entries[n].id) < 0
                        \/ ArrayIndex(entries[m].id) < ArrayIndex(entries[n].id)

\* aggregatedUpdates[fileId] = updateObj: an existing key keeps its place, a
\* new one that is an array index goes among the array indices, any other
\* new one to the end
SetEntry(entries, e) ==
    IF e.id \in Keys(entries)
    THEN [entries EXCEPT ![IndexOf(entries, e.id)] = e]
    ELSE IF ArrayIndex(e.id) >= 0
    THEN LET below == Cardinality({n \in DOMAIN entries :
                                     /\ ArrayIndex(entries[n].id) >= 0
                                     /\ ArrayIndex(entries[n].id) < ArrayIndex(e.id)})
         IN  SubSeq(entries, 1, below) \o <<e>> \o SubSeq(entries, below + 1, Len(entries))
    ELSE Append(entries, e)

ChangeRecords ==
    [id : FileIds, action : {"add"}, content : Contents]
    \cup [id : FileIds, action : {"update", "delete"}, content : {Undefined}]

\* What Shop.update may return
Diffs ==
    {d \in SeqsOf(ChangeRecords, 0, MaxDiff) :
        /\ \A m, n \in DOMAIN d : m # n => d[m].id # d[n].id
        /\ ObjectOrder(d)}

(***************************************************************************)
(* Files on disk.                                                          *)
(***************************************************************************)
EmptyLock ==
    [shopLastUsed |-> EmptyObj, fileOrigins |-> EmptyObj, pluginPermissions |-> EmptyObj]

\* shoprag-lock.json: whether it exists, and what it holds
NoFile == [exists |-> FALSE, data |-> EmptyLock]

\* A variant: a file without pluginPermissions is taken for no file
loadOrInitializeLockJsonStrict(file) ==
    IF ~file.exists \/ "pluginPermissions" \notin DOMAIN file.data
    THEN EmptyLock
    ELSE file.data

\* loadOrInitializeLockJson: the default structure if the file is not
\* there; a file without the field pluginPermissions (one an earlier
\* version wrote) gets an empty one
loadOrInitializeLockJson(file) ==
    IF ~file.exists THEN EmptyLock
    ELSE IF "pluginPermissions" \notin DOMAIN file.data
    THEN [shopLastUsed |-> file.data.shopLastUsed,
          fileOrigins |-> file.data.fileOrigins,
          pluginPermissions |-> EmptyObj]
    ELSE file.data

\* A variant: the identifier is the name of the plugin alone
getShopIdentifierNoIndex(from, index) == from

\* getShopIdentifier
getShopIdentifier(from, index) == from \o "[" \o ToString(index) \o "]"

(***************************************************************************)
(* The entries of log: a call of a plugin method (init, update, addFile,   *)
(* updateFile, deleteFile, finalize) or a prompt (ask for the values of    *)
(* credentials, permit a credential to an unofficial plugin).              *)
(***************************************************************************)
NoInstance == [plugin |-> "", slot |-> -1]

Event(op) ==
    [op |-> op,              \* the method called, or the prompt
     kind |-> "",            \* "shop" or "rag"
     inst |-> NoInstance,    \* the instance called
     pos |-> -1,             \* its index in shops or rags at the call
     from |-> "",            \* the name of the entry of the configuration used
     id |-> "",              \* fileId, shop identifier or credential name
     content |-> "",         \* the content passed to addFile or updateFile
     creds |-> EmptyObj,     \* the credentials passed to init
     names |-> {},           \* the credentials asked for
     lastUsed |-> 0,         \* update: its first argument
     existingFiles |-> EmptyObj,  \* update: its second argument
     updates |-> <<>>,       \* update: what it returned
     now |-> 0,              \* update: Date.now() as the Shop is marked as used
     ok |-> TRUE]            \* the call returned (or the user said yes)

VARIABLES
    shopragFile,   \* shoprag.json: [Shops, RAGs], the plugin name of each entry
    lockFile,      \* shoprag-lock.json, or NoFile
    credsFile,     \* ~/.shoprag/creds.json
    clock,         \* Date.now()
    runs,          \* runs of the command started so far
    pc,            \* the step the current run is at
    shopragData,   \* the configuration in memory
    creds,         \* the credentials in memory
    shops,         \* the loaded Shop instances
    rags,          \* the loaded RAG instances
    lockData,      \* the lock data in memory
    i,             \* the loop index of the running loop (a JavaScript index)
    permKeys,      \* permission loop: the credentials still to look at
    permAlias,     \* permission loop: permissions is the array held by lockData
    permName,      \* permission loop: pluginName
    permInst,      \* permission loop: the instance whose requiredCredentials was read
    aggregatedUpdates,
    j,             \* replay: index of the next entry of aggregatedUpdates
    log,           \* the plugin calls and prompts of the current run, in order
    aggBy,         \* for each key of aggregatedUpdates, the Shop whose record it holds
    startLock,     \* shoprag-lock.json as the current run found it
    lockWrites,    \* writes of shoprag-lock.json by the current run
    crash,         \* why the current run was aborted, if it was
    emitted,       \* records the Shops have returned so far, all runs together
    failures       \* plugin calls that have failed so far, all runs together

vars ==
    <<shopragFile, lockFile, credsFile, clock, runs, pc, shopragData, creds, shops,
      rags, lockData, i, permKeys, permAlias, permName, permInst, aggregatedUpdates, j,
      log,
      aggBy, startLock, lockWrites, crash, emitted, failures>>

disk == <<shopragFile, lockFile, credsFile>>
permLocals == <<permKeys, permAlias, permName, permInst>>
ghost == <<aggBy, startLock, lockWrites>>
budget == <<emitted, failures>>

(***************************************************************************)
(* The state before the first run: a project file with some Shops and      *)
(* RAGs, no lock file, an empty credentials file.                          *)
(***************************************************************************)
AllOfficial(defs) == \A n \in DOMAIN defs : ~IsUnofficial(defs[n])

\* loadShopragJson() === null: the directory holds no shoprag.json
NoProject == [exists |-> FALSE]

\* newData of createShopragJson: the project the user named, nothing in it
\* (Project_Name and ShopRAG, which the run never reads, are left out)
EmptyProject == [Shops |-> <<>>, RAGs |-> <<>>]

Configs ==
    {c \in [Shops : SeqsOf(ShopPlugins, MaxShops, MaxShops),
            RAGs : SeqsOf(RagPlugins, MaxRags, MaxRags)] :
        AllOfficial(c.Shops) \/ AllOfficial(c.RAGs)}

Init ==
    /\ shopragFile \in Configs
    /\ lockFile = NoFile
    /\ credsFile = EmptyObj
    /\ clock = 1
    /\ runs = 0
    /\ pc = "idle"
    /\ shopragData = [Shops |-> <<>>, RAGs |-> <<>>]
    /\ creds = EmptyObj
    /\ shops = <<>>
    /\ rags = <<>>
    /\ lockData = EmptyLock
    /\ i = 0
    /\ permKeys = <<>>
    /\ permAlias = FALSE
    /\ permName = ""
    /\ permInst = NoInstance
    /\ aggregatedUpdates = <<>>
    /\ j = 0
    /\ log = <<>>
    /\ aggBy = EmptyObj
    /\ startLock = NoFile
    /\ lockWrites = 0
    /\ crash = "none"
    /\ emitted = 0
    /\ failures = 0

\* new pluginModule.default(): the instance loaded for entry n of the list
Instance(plugin, n) == [plugin |-> plugin, slot |-> n]

LoadAll(defs) == [n \in DOMAIN defs |-> Instance(defs[n], n - 1)]

(***************************************************************************)
(* The command starts: loadShopragJson, loadOrInitializeCredentials, the   *)
(* import of every plugin.                                                 *)
(***************************************************************************)
BeginRun ==
    /\ pc \in {"idle", "done", "crashed"}
    /\ runs < MaxRuns
    /\ runs' = runs + 1
    /\ LET project == IF shopragFile = NoProject THEN EmptyProject ELSE shopragFile
       IN  /\ shopragFile' = project
           /\ shopragData' = project
           /\ shops' = LoadAll(project.Shops)
           /\ rags' = LoadAll(project.RAGs)
    \* no shoprag.json: createShopragJson asks for the name and writes the file
    /\ log' = IF shopragFile = NoProject THEN <<Event("projectName")>> ELSE <<>>
    /\ creds' = credsFile
    /\ lockData' = EmptyLock
    /\ aggregatedUpdates' = <<>>
    /\ aggBy' = EmptyObj
    /\ startLock' = lockFile
    /\ lockWrites' = 0
    /\ crash' = "none"
    /\ i' = 0
    /\ j' = 0
    /\ pc' = "credsShops"
    /\ UNCHANGED <<lockFile, credsFile, clock, permLocals, budget>>

(***************************************************************************)
(* Step 4 of the command: promptForMissingCredentials for every Shop, then *)
(* for every RAG.  The user types a value for each credential the plugin   *)
(* declares and the store lacks; the store is written at once.             *)
(***************************************************************************)
Answers == Secrets

\* !existingCreds[credName]
Missing(existingCreds, credName) ==
    credName \notin DOMAIN existingCreds \/ existingCreds[credName] = ""

\* A variant: the answers are kept in memory and not written to the store
promptForMissingCredentialsUnsaved(instance, next) ==
    LET needed == Range(requiredCredentials(instance.plugin))
        missingCreds == {c \in needed : Missing(creds, c)}
    IN  IF missingCreds = {}
        THEN /\ UNCHANGED <<creds, credsFile, log>>
             /\ i' = next
        ELSE \E answers \in [missingCreds -> Answers] :
                /\ creds' = answers @@ creds
                /\ credsFile' = credsFile
                /\ log' = Append(log, [Event("ask") EXCEPT !.from = instance.plugin,
                                                             !.names = missingCreds])
                /\ i' = next

promptForMissingCredentials(instance, next) ==
    LET needed == Range(requiredCredentials(instance.plugin))
        missingCreds == {c \in needed : Missing(creds, c)}
    IN  IF missingCreds = {}
        THEN /\ UNCHANGED <<creds, credsFile, log>>
             /\ i' = next
        ELSE \E answers \in [missingCreds -> Answers] :
                /\ creds' = answers @@ creds
                /\ credsFile' = answers @@ creds
                /\ log' = Append(log, [Event("ask") EXCEPT !.from = instance.plugin,
                                                             !.names = missingCreds])
                /\ i' = next

PromptShopCreds ==
    /\ pc = "credsShops"
    /\ IF i < Len(shops)
       THEN /\ promptForMissingCredentials(shops[i + 1], i + 1)
            /\ pc' = pc
       ELSE /\ pc' = "credsRags"
            /\ i' = 0
            /\ UNCHANGED <<creds, credsFile, log>>
    /\ UNCHANGED <<shopragFile, lockFile, clock, runs, shopragData, shops, rags,
                   lockData, permLocals, aggregatedUpdates, j, ghost, crash, budget>>

PromptRagCreds ==
    /\ pc = "credsRags"
    /\ i < Len(rags)
    /\ promptForMissingCredentials(rags[i + 1], i + 1)
    /\ pc' = pc
    /\ UNCHANGED <<shopragFile, lockFile, clock, runs, shopragData, shops, rags,
                   lockData, permLocals, aggregatedUpdates, j, ghost, crash, budget>>

(***************************************************************************)
(* creds = loadOrInitializeCredentials(); lockData =                      *)
(* loadOrInitializeLockJson()                                              *)
(***************************************************************************)
LoadLock ==
    /\ pc = "credsRags"
    /\ i >= Len(rags)
    /\ creds' = credsFile
    /\ lockData' = loadOrInitializeLockJson(lockFile)
    /\ pc' = "permShops"
    /\ i' = 0
    /\ permKeys' = <<>>
    /\ permAlias' = FALSE
    /\ permName' = ""
    /\ permInst' = NoInstance
    /\ UNCHANGED <<disk, clock, runs, shopragData, shops, rags, aggregatedUpdates,
                   j, log, ghost, crash, budget>>

(***************************************************************************)
(* The permissions of unofficial plugins.  The loop runs over the list of  *)
(* the configuration; a plugin that declares a credential its entry of     *)
(* pluginPermissions lacks makes the command ask the user, who allows it   *)
(* or has the plugin removed.                                              *)
(***************************************************************************)
\* const permissions = lockData.pluginPermissions[pluginName] || []
Permissions(name) ==
    IF name \in DOMAIN lockData.pluginPermissions
    THEN lockData.pluginPermissions[name]
    ELSE <<>>

\* A variant: the grant is not recorded
GrantForgotten(name, cred) == lockData

\* lockData.pluginPermissions[pluginName].push(cred)
Grant(name, cred) ==
    [lockData EXCEPT !.pluginPermissions = Put(@, name, Append(Permissions(name), cred))]

\* The head of one turn of the outer loop: defs is the list of the
\* configuration, insts the loaded instances, after the phase that follows
PermLoopHead(defs, insts, after) ==
    IF i >= Len(defs)
    THEN /\ pc' = after
         /\ i' = 0
         /\ UNCHANGED <<permLocals, crash>>
    ELSE IF i < 0
    THEN \* shopragData.Shops[i] is undefined: reading its name throws
         /\ pc' = "crashed"
         /\ crash' = "permissions"
         /\ UNCHANGED <<i, permLocals>>
    ELSE /\ pc' = pc
         /\ crash' = crash
         /\ IF IsUnofficial(defs[i + 1]) /\ requiredCredentials(insts[i + 1].plugin) # <<>>
            THEN /\ permName' = defs[i + 1]
                 /\ permInst' = insts[i + 1]
                 /\ permKeys' = requiredCredentials(insts[i + 1].plugin)
                 /\ permAlias' = (defs[i + 1] \in DOMAIN lockData.pluginPermissions)
                 /\ i' = i
            ELSE /\ i' = i + 1
                 /\ UNCHANGED permLocals

\* The inner loop is done with a credential: the next one, or the next turn
\* of the outer loop, index being the loop index as the body left it
PermAdvance(index) ==
    /\ permKeys' = Tail(permKeys)
    /\ IF Tail(permKeys) = <<>>
       THEN /\ permName' = ""
            /\ permInst' = NoInstance
            /\ i' = index + 1
       ELSE /\ permName' = permName
            /\ permInst' = permInst
            /\ i' = index
    /\ permAlias' = permAlias

\* A variant: the list is not looked at
PermittedNever(cred) == FALSE

\* permissions.includes(cred)
Permitted(cred) == permAlias /\ Includes(Permissions(permName), cred)

PermitEvent(cred, allow) ==
    [Event("permit") EXCEPT !.kind = IF pc = "permShops" THEN "shop" ELSE "rag",
                            !.inst = permInst, !.from = permName, !.id = cred,
                            !.ok = allow]

PermShopsHead ==
    /\ pc = "permShops"
    /\ permName = ""
    /\ PermLoopHead(shopragData.Shops, shops, "permRags")
    /\ UNCHANGED <<disk, clock, runs, shopragData, creds, shops, rags, lockData,
                   aggregatedUpdates, j, log, ghost, budget>>

PermShopsCred ==
    /\ pc = "permShops"
    /\ permName # ""
    /\ LET cred == Head(permKeys)
       IN  IF Permitted(cred)
           THEN /\ PermAdvance(i)
                /\ UNCHANGED <<shopragData, shopragFile, shops, lockData, log>>
           ELSE \E allow \in BOOLEAN :
                  /\ log' = Append(log, PermitEvent(cred, allow))
                  /\ IF allow
                     THEN /\ lockData' = Grant(permName, cred)
                          /\ PermAdvance(i)
                          /\ UNCHANGED <<shopragData, shopragFile, shops>>
                     ELSE LET data == [shopragData EXCEPT !.Shops = Splice1(@, i)]
                          IN  /\ shopragData' = data
                              /\ shopragFile' = data
                              /\ shops' = Splice1(shops, i - 1)
                              /\ PermAdvance(i - 1)
                              /\ UNCHANGED lockData
    /\ UNCHANGED <<lockFile, credsFile, clock, runs, pc, creds, rags,
                   aggregatedUpdates, j, ghost, crash, budget>>

PermRagsHead ==
    /\ pc = "permRags"
    /\ permName = ""
    /\ PermLoopHead(shopragData.RAGs, rags, "initShops")
    /\ UNCHANGED <<disk, clock, runs, shopragData, creds, shops, rags, lockData,
                   aggregatedUpdates, j, log, ghost, budget>>

PermRagsCred ==
    /\ pc = "permRags"
    /\ permName # ""
    /\ LET cred == Head(permKeys)
       IN  IF Permitted(cred)
           THEN /\ PermAdvance(i)
                /\ UNCHANGED <<shopragData, shopragFile, rags, lockData, log>>
           ELSE \E allow \in BOOLEAN :
                  /\ log' = Append(log, PermitEvent(cred, allow))
                  /\ IF allow
                     THEN /\ lockData' = Grant(permName, cred)
                          /\ PermAdvance(i)
                          /\ UNCHANGED <<shopragData, shopragFile, rags>>
                     ELSE LET data == [shopragData EXCEPT !.RAGs = Splice1(@, i)]
                          IN  /\ shopragData' = data
                              /\ shopragFile' = data
                              /\ rags' = Splice1(rags, i - 1)
                              /\ PermAdvance(i - 1)
                              /\ UNCHANGED lockData
    /\ UNCHANGED <<lockFile, credsFile, clock, runs, pc, creds, shops,
                   aggregatedUpdates, j, ghost, crash, budget>>

(***************************************************************************)
(* Step 5: init of every Shop, then of every RAG, with the credentials the *)
(* plugin is allowed.  A failing init is not caught: it ends the command.  *)
(***************************************************************************)
\* allowedCreds, as the names of the configuration entry and the
\* credentials of the instance give them
AllowedCreds(from, instance) ==
    LET requiredCreds == requiredCredentials(instance.plugin)
    IN  IF IsUnofficial(from)
        THEN SelectSeq(requiredCreds, LAMBDA cred : Includes(Permissions(from), cred))
        ELSE requiredCreds

\* A variant: the whole store is passed
CredsToPassAll(allowedCreds) == creds

\* Object.fromEntries(allowedCreds.map(cred => [cred, creds[cred]]))
CredsToPass(allowedCreds) ==
    [cred \in Range(allowedCreds) |->
        IF cred \in DOMAIN creds THEN creds[cred] ELSE Undefined]

InitEvent(kind, from, instance, ok) ==
    [Event("init") EXCEPT !.kind = kind, !.inst = instance, !.pos = i, !.from = from,
                          !.creds = CredsToPass(AllowedCreds(from, instance)),
                          !.ok = ok]

\* A variant: only the first instance of the list is initialized
InitLoopFirstOnly(kind, defs, insts, after) ==
    IF i >= Min(1, Len(insts))
    THEN /\ pc' = after
         /\ i' = 0
         /\ UNCHANGED <<log, crash, failures>>
    ELSE \E ok \in BOOLEAN :
            /\ ~ok => failures < MaxFailures
            /\ log' = Append(log, InitEvent(kind, defs[i + 1], insts[i + 1], ok))
            /\ IF ok
               THEN /\ i' = i + 1
                    /\ UNCHANGED <<pc, crash, failures>>
               ELSE /\ pc' = "crashed"
                    /\ crash' = "init"
                    /\ failures' = failures + 1
                    /\ i' = i

\* One turn of an init loop; after is the step that follows the loop
InitLoop(kind, defs, insts, after) ==
    IF i >= Len(insts)
    THEN /\ pc' = after
         /\ i' = 0
         /\ UNCHANGED <<log, crash, failures>>
    ELSE \E ok \in BOOLEAN :
            /\ ~ok => failures < MaxFailures
            /\ log' = Append(log, InitEvent(kind, defs[i + 1], insts[i + 1], ok))
            /\ IF ok
               THEN /\ i' = i + 1
                    /\ UNCHANGED <<pc, crash, failures>>
               ELSE /\ pc' = "crashed"
                    /\ crash' = "init"
                    /\ failures' = failures + 1
                    /\ i' = i

InitShop ==
    /\ pc = "initShops"
    /\ InitLoop("shop", shopragData.Shops, shops, "initRags")
    /\ UNCHANGED <<disk, clock, runs, shopragData, creds, shops, rags, lockData,
                   permLocals, aggregatedUpdates, j, ghost, emitted>>

InitRag ==
    /\ pc = "initRags"
    /\ InitLoop("rag", shopragData.RAGs, rags, "gather")
    /\ UNCHANGED <<disk, clock, runs, shopragData, creds, shops, rags, lockData,
                   permLocals, aggregatedUpdates, j, ghost, emitted>>

(***************************************************************************)
(* Step 6: the updates of every Shop.                                      *)
(***************************************************************************)
\* A variant: every Shop is told it was never used
LastUsedNever(shopIdentifier) == 0

\* lockData.shopLastUsed[shopIdentifier] || 0
LastUsed(shopIdentifier) ==
    IF shopIdentifier \in DOMAIN lockData.shopLastUsed
    THEN lockData.shopLastUsed[shopIdentifier]
    ELSE 0

\* A variant: existingFiles is taken from the lock file as the run found it
ExistingFilesAtStart(shopIdentifier) ==
    LET origins == loadOrInitializeLockJson(startLock).fileOrigins
    IN  [fileId \in {f \in DOMAIN origins : origins[f].shopIdentifier = shopIdentifier}
            |-> origins[fileId].lastUpdated]

\* existingFiles: the files of lockData.fileOrigins this Shop contributed
ExistingFiles(shopIdentifier) ==
    LET origins == lockData.fileOrigins
    IN  [fileId \in {f \in DOMAIN origins : origins[f].shopIdentifier = shopIdentifier}
            |-> origins[fileId].lastUpdated]

\* A variant: a file that has an entry keeps it
RECURSIVE MergeUpdatesFirstWins(_, _)
MergeUpdatesFirstWins(agg, shopUpdates) ==
    IF shopUpdates = <<>> THEN agg
    ELSE MergeUpdatesFirstWins(IF Head(shopUpdates).id \in Keys(agg) THEN agg
                               ELSE Append(agg, Head(shopUpdates)),
                               Tail(shopUpdates))

\* Merge into aggregated updates
RECURSIVE MergeUpdates(_, _)
MergeUpdates(agg, shopUpdates) ==
    IF shopUpdates = <<>> THEN agg
    ELSE MergeUpdates(SetEntry(agg, Head(shopUpdates)), Tail(shopUpdates))

\* A variant: the record of a file that has one keeps its Shop
UpdateOriginFirstOwner(origins, updateObj, shopIdentifier, now) ==
    IF updateObj.action = "delete"
    THEN Del(origins, updateObj.id)
    ELSE Put(origins, updateObj.id,
             [shopIdentifier |-> IF updateObj.id \in DOMAIN origins
                                 THEN origins[updateObj.id].shopIdentifier
                                 ELSE shopIdentifier,
              lastUpdated |-> now])

\* A variant: a delete leaves the record
UpdateOriginKeeps(origins, updateObj, shopIdentifier, now) ==
    IF updateObj.action = "delete"
    THEN origins
    ELSE Put(origins, updateObj.id,
             [shopIdentifier |-> shopIdentifier, lastUpdated |-> now])

\* A variant: the record of another Shop is left as it is
UpdateOriginOwnOnly(origins, updateObj, shopIdentifier, now) ==
    IF /\ updateObj.id \in DOMAIN origins
       /\ origins[updateObj.id].shopIdentifier # shopIdentifier
    THEN origins
    ELSE IF updateObj.action = "delete"
    THEN Del(origins, updateObj.id)
    ELSE Put(origins, updateObj.id,
             [shopIdentifier |-> shopIdentifier, lastUpdated |-> now])

\* One entry of shopUpdates applied to fileOrigins, now being Date.now()
UpdateOrigin(origins, updateObj, shopIdentifier, now) ==
    IF updateObj.action = "delete"
    THEN Del(origins, updateObj.id)
    ELSE Put(origins, updateObj.id,
             [shopIdentifier |-> shopIdentifier, lastUpdated |-> now])

\* A variant: a Shop that returns nothing loses the files it contributed
RECURSIVE UpdateOriginsPrunes(_, _, _, _, _)
UpdateOriginsPrunes(origins, shopUpdates, shopIdentifier, stamps, n) ==
    IF shopUpdates = <<>>
    THEN [f \in {g \in DOMAIN origins : origins[g].shopIdentifier # shopIdentifier}
            |-> origins[f]]
    ELSE IF n > Len(shopUpdates) THEN origins
    ELSE UpdateOriginsPrunes(UpdateOrigin(origins, shopUpdates[n], shopIdentifier, stamps[n]),
                             shopUpdates, shopIdentifier, stamps, n + 1)

\* The loop over shopUpdates that updates fileOrigins; stamps[n] is what
\* Date.now() returns in turn n
RECURSIVE UpdateOrigins(_, _, _, _, _)
UpdateOrigins(origins, shopUpdates, shopIdentifier, stamps, n) ==
    IF n > Len(shopUpdates) THEN origins
    ELSE UpdateOrigins(UpdateOrigin(origins, shopUpdates[n], shopIdentifier, stamps[n]),
                       shopUpdates, shopIdentifier, stamps, n + 1)

RECURSIVE MarkOwner(_, _, _)
MarkOwner(by, shopUpdates, shopIdentifier) ==
    IF shopUpdates = <<>> THEN by
    ELSE MarkOwner(Put(by, Head(shopUpdates).id, shopIdentifier), Tail(shopUpdates),
                   shopIdentifier)

\* A variant: the values need not follow time t
StampsAny(t, n) ==
    {st \in [1..n -> 1..MaxClock] : \A a, b \in 1..n : a < b => st[a] <= st[b]}

\* The values Date.now() returns in a row, from time t on
Stamps(t, n) ==
    {st \in [1..n -> t..MaxClock] : \A a, b \in 1..n : a < b => st[a] <= st[b]}

UpdateEvent(instance, from, shopIdentifier, ok, shopUpdates, now) ==
    [Event("update") EXCEPT !.kind = "shop", !.inst = instance, !.pos = i,
                            !.from = from, !.id = shopIdentifier,
                            !.lastUsed = LastUsed(shopIdentifier),
                            !.existingFiles = ExistingFiles(shopIdentifier),
                            !.updates = shopUpdates, !.now = now, !.ok = ok]

\* A variant: the RAGs are replayed and finalized whatever was gathered
AfterGatherAlways(agg) ==
    IF rags = <<>> THEN "save" ELSE "replay"

\* The step after the loop over the Shops
AfterGather(agg) ==
    IF agg = <<>> \/ rags = <<>> THEN "save" ELSE "replay"

\* A variant: a Shop whose update failed loses what it had contributed
UpdateFailedForgets(shopIdentifier) ==
    /\ log' = Append(log, UpdateEvent(shops[i + 1], shopragData.Shops[i + 1],
                                      shopIdentifier, FALSE, <<>>, 0))
    /\ lockData' = [lockData EXCEPT !.fileOrigins =
                        [f \in {g \in DOMAIN @ : @[g].shopIdentifier # shopIdentifier}
                            |-> @[f]]]
    /\ aggregatedUpdates' = SelectSeq(aggregatedUpdates,
                                      LAMBDA u : aggBy[u.id] # shopIdentifier)
    /\ UNCHANGED <<lockFile, aggBy, clock, emitted, pc, crash>>
    /\ failures' = failures + 1
    /\ i' = i + 1

\* A variant: the Shop is marked as used although its update failed
UpdateFailedMarked(shopIdentifier) ==
    /\ log' = Append(log, UpdateEvent(shops[i + 1], shopragData.Shops[i + 1],
                                      shopIdentifier, FALSE, <<>>, 0))
    /\ lockData' = [lockData EXCEPT !.shopLastUsed = Put(@, shopIdentifier, clock)]
    /\ UNCHANGED <<lockFile, aggregatedUpdates, aggBy, clock, emitted, pc, crash>>
    /\ failures' = failures + 1
    /\ i' = i + 1

\* A variant: the error of update is not caught
UpdateFailedAborts(shopIdentifier) ==
    /\ log' = Append(log, UpdateEvent(shops[i + 1], shopragData.Shops[i + 1],
                                      shopIdentifier, FALSE, <<>>, 0))
    /\ UNCHANGED <<lockData, lockFile, aggregatedUpdates, aggBy, clock, emitted, i>>
    /\ failures' = failures + 1
    /\ pc' = "crashed"
    /\ crash' = "update"

\* The catch of the call of update: the error is printed, continue
UpdateFailed(shopIdentifier) ==
    /\ log' = Append(log, UpdateEvent(shops[i + 1], shopragData.Shops[i + 1],
                                      shopIdentifier, FALSE, <<>>, 0))
    /\ UNCHANGED <<lockData, lockFile, aggregatedUpdates, aggBy, clock, emitted,
                   pc, crash>>
    /\ failures' = failures + 1
    /\ i' = i + 1

\* A variant: the Shop is not marked as used
UpdateReturnedUnmarked(shopIdentifier, shopUpdates) ==
    \E now \in clock..MaxClock :
      \E stamps \in Stamps(now, Len(shopUpdates)) :
        /\ log' = Append(log, UpdateEvent(shops[i + 1], shopragData.Shops[i + 1],
                                          shopIdentifier, TRUE, shopUpdates, now))
        /\ aggregatedUpdates' = MergeUpdates(aggregatedUpdates, shopUpdates)
        /\ aggBy' = MarkOwner(aggBy, shopUpdates, shopIdentifier)
        /\ lockData' =
             [lockData EXCEPT
                !.fileOrigins =
                    UpdateOrigins(@, shopUpdates, shopIdentifier, stamps, 1)]
        /\ clock' = IF shopUpdates = <<>> THEN now ELSE stamps[Len(shopUpdates)]
        /\ emitted' = emitted + Len(shopUpdates)
        /\ i' = i + 1
        /\ UNCHANGED <<lockFile, failures, pc, crash>>

\* A variant: the lock file is written after every Shop
UpdateReturnedSaved(shopIdentifier, shopUpdates) ==
    \E now \in clock..MaxClock :
      \E stamps \in Stamps(now, Len(shopUpdates)) :
        LET data == [lockData EXCEPT
                        !.shopLastUsed = Put(@, shopIdentifier, now),
                        !.fileOrigins =
                            UpdateOrigins(@, shopUpdates, shopIdentifier, stamps, 1)]
        IN  /\ log' = Append(log, UpdateEvent(shops[i + 1], shopragData.Shops[i + 1],
                                              shopIdentifier, TRUE, shopUpdates, now))
            /\ aggregatedUpdates' = MergeUpdates(aggregatedUpdates, shopUpdates)
            /\ aggBy' = MarkOwner(aggBy, shopUpdates, shopIdentifier)
            /\ lockData' = data
            /\ lockFile' = [exists |-> TRUE, data |-> data]
            /\ clock' = IF shopUpdates = <<>> THEN now ELSE stamps[Len(shopUpdates)]
            /\ emitted' = emitted + Len(shopUpdates)
            /\ i' = i + 1
            /\ UNCHANGED <<failures, pc, crash>>

\* A variant: a Shop that returned nothing is not marked as used
UpdateReturnedIfChanged(shopIdentifier, shopUpdates) ==
    \E now \in clock..MaxClock :
      \E stamps \in Stamps(now, Len(shopUpdates)) :
        /\ log' = Append(log, UpdateEvent(shops[i + 1], shopragData.Shops[i + 1],
                                          shopIdentifier, TRUE, shopUpdates, now))
        /\ aggregatedUpdates' = MergeUpdates(aggregatedUpdates, shopUpdates)
        /\ aggBy' = MarkOwner(aggBy, shopUpdates, shopIdentifier)
        /\ lockData' =
             IF shopUpdates = <<>> THEN lockData
             ELSE [lockData EXCEPT
                      !.shopLastUsed = Put(@, shopIdentifier, now),
                      !.fileOrigins =
                          UpdateOrigins(@, shopUpdates, shopIdentifier, stamps, 1)]
        /\ clock' = IF shopUpdates = <<>> THEN now ELSE stamps[Len(shopUpdates)]
        /\ emitted' = emitted + Len(shopUpdates)
        /\ i' = i + 1
        /\ UNCHANGED <<lockFile, failures, pc, crash>>

\* What follows a call of update that returned shopUpdates
UpdateReturned(shopIdentifier, shopUpdates) ==
    \E now \in clock..MaxClock :
      \E stamps \in Stamps(now, Len(shopUpdates)) :
        /\ log' = Append(log, UpdateEvent(shops[i + 1], shopragData.Shops[i + 1],
                                          shopIdentifier, TRUE, shopUpdates, now))
        /\ aggregatedUpdates' = MergeUpdates(aggregatedUpdates, shopUpdates)
        /\ aggBy' = MarkOwner(aggBy, shopUpdates, shopIdentifier)
        /\ lockData' =
             [lockData EXCEPT
                !.shopLastUsed = Put(@, shopIdentifier, now),
                !.fileOrigins =
                    UpdateOrigins(@, shopUpdates, shopIdentifier, stamps, 1)]
        /\ clock' = IF shopUpdates = <<>> THEN now ELSE stamps[Len(shopUpdates)]
        /\ emitted' = emitted + Len(shopUpdates)
        /\ i' = i + 1
        /\ UNCHANGED <<lockFile, failures, pc, crash>>

PollShop ==
    /\ pc = "gather"
    /\ i < Len(shops)
    /\ LET shopDef == shopragData.Shops[i + 1]
           shopIdentifier == getShopIdentifier(shopDef, i)
       IN  \/ /\ failures < MaxFailures
              /\ UpdateFailed(shopIdentifier)
           \/ \E shopUpdates \in Diffs :
                /\ emitted + Len(shopUpdates) <= MaxEmitted
                /\ UpdateReturned(shopIdentifier, shopUpdates)
    /\ UNCHANGED <<shopragFile, credsFile, runs, shopragData, creds, shops, rags,
                   permLocals, j, startLock, lockWrites>>

GatherDone ==
    /\ pc = "gather"
    /\ i >= Len(shops)
    /\ pc' = AfterGather(aggregatedUpdates)
    /\ i' = 0
    /\ j' = 0
    /\ UNCHANGED <<disk, clock, runs, shopragData, creds, shops, rags, lockData,
                   permLocals, aggregatedUpdates, log, ghost, crash, budget>>

(***************************************************************************)
(* Step 7: every entry of aggregatedUpdates to every RAG, then finalize.   *)
(***************************************************************************)
\* updateObj.content || ''
ContentOrEmpty(content) == IF content = Undefined THEN "" ELSE content

\* A variant: a delete is dispatched to updateFile
MethodOfDeleteAsUpdate(updateObj) ==
    IF updateObj.action = "add" THEN "addFile" ELSE "updateFile"

\* A variant: an update is dispatched to addFile
MethodOfUpdateAsAdd(updateObj) ==
    IF updateObj.action = "delete" THEN "deleteFile" ELSE "addFile"

\* The method of the RAG an entry is dispatched to
MethodOf(updateObj) ==
    CASE updateObj.action = "delete" -> "deleteFile"
      [] updateObj.action = "add" -> "addFile"
      [] updateObj.action = "update" -> "updateFile"

FileEvent(updateObj, ok) ==
    [Event(MethodOf(updateObj)) EXCEPT
        !.kind = "rag", !.inst = rags[i + 1], !.pos = i,
        !.from = shopragData.RAGs[i + 1], !.id = updateObj.id,
        !.content = IF updateObj.action = "delete" THEN ""
                    ELSE ContentOrEmpty(updateObj.content),
        !.ok = ok]

\* A variant: the error of a file call is not caught
FileFailedAborts == /\ failures' = failures + 1
                    /\ pc' = "crashed"
                    /\ crash' = "file"

\* The catch around the call for one file: the error is printed
FileFailed == /\ failures' = failures + 1
              /\ UNCHANGED <<pc, crash>>

ReplayFile ==
    /\ pc = "replay"
    /\ i < Len(rags)
    /\ j < Len(aggregatedUpdates)
    /\ \E ok \in BOOLEAN :
         /\ log' = Append(log, FileEvent(aggregatedUpdates[j + 1], ok))
         /\ IF ok THEN UNCHANGED <<pc, crash, failures>>
                  ELSE failures < MaxFailures /\ FileFailed
    /\ j' = j + 1
    /\ UNCHANGED <<disk, clock, runs, shopragData, creds, shops, rags, lockData,
                   permLocals, aggregatedUpdates, i, ghost, emitted>>

FinalizeEvent(ok) ==
    [Event("finalize") EXCEPT !.kind = "rag", !.inst = rags[i + 1], !.pos = i,
                              !.from = shopragData.RAGs[i + 1], !.ok = ok]

\* finalize threw: nothing catches it
FinalizeFailed ==
    /\ pc' = "crashed"
    /\ crash' = "finalize"
    /\ failures' = failures + 1
    /\ UNCHANGED <<i, j>>

\* A variant: finalize is called once the first entry has been replayed
FinalizeAfterFirst ==
    /\ pc = "replay"
    /\ i < Len(rags)
    /\ j >= Min(1, Len(aggregatedUpdates))
    /\ log' = Append(log, FinalizeEvent(TRUE))
    /\ i' = i + 1
    /\ j' = 0
    /\ pc' = IF i + 1 < Len(rags) THEN "replay" ELSE "save"
    /\ UNCHANGED <<disk, clock, runs, shopragData, creds, shops, rags, lockData,
                   permLocals, aggregatedUpdates, ghost, emitted, crash, failures>>

Finalize ==
    /\ pc = "replay"
    /\ i < Len(rags)
    /\ j >= Len(aggregatedUpdates)
    /\ \E ok \in BOOLEAN :
         /\ log' = Append(log, FinalizeEvent(ok))
         /\ IF ok
            THEN /\ i' = i + 1
                 /\ j' = 0
                 /\ pc' = IF i + 1 < Len(rags) THEN "replay" ELSE "save"
                 /\ UNCHANGED <<crash, failures>>
            ELSE failures < MaxFailures /\ FinalizeFailed
    /\ UNCHANGED <<disk, clock, runs, shopragData, creds, shops, rags, lockData,
                   permLocals, aggregatedUpdates, ghost, emitted>>

(***************************************************************************)
(* Step 8: saveLockJson(lockData).                                         *)
(***************************************************************************)
FileOps == {"addFile", "updateFile", "deleteFile"}

\* The indices of log that hold a call of the given methods
CallsOf(ops) == {n \in DOMAIN log : log[n].op \in ops}

\* The lock data the run started from
StartData == loadOrInitializeLockJson(startLock)

\* A variant: the record of a file some RAG refused is written as the run
\* found it
saveLockJsonApplied(data) ==
    LET refused == {log[n].id : n \in {m \in CallsOf(FileOps) : ~log[m].ok}}
        before == StartData.fileOrigins
        kept == ((DOMAIN data.fileOrigins) \ refused)
                    \cup (refused \cap DOMAIN before)
    IN  [exists |-> TRUE,
         data |-> [data EXCEPT !.fileOrigins =
                      [f \in kept |-> IF f \in refused THEN before[f]
                                      ELSE data.fileOrigins[f]]]]

\* A variant: only the Shops polled in the run keep their entry of shopLastUsed
saveLockJsonPolled(data) ==
    LET polled == {log[n].id : n \in CallsOf({"update"})}
    IN  [exists |-> TRUE,
         data |-> [data EXCEPT !.shopLastUsed =
                      [id \in (DOMAIN @) \cap polled |-> @[id]]]]

saveLockJson(data) == [exists |-> TRUE, data |-> data]

SaveLock ==
    /\ pc = "save"
    /\ lockFile' = saveLockJson(lockData)
    /\ lockWrites' = lockWrites + 1
    /\ pc' = "done"
    /\ UNCHANGED <<shopragFile, credsFile, clock, runs, shopragData, creds, shops,
                   rags, lockData, i, permLocals, aggregatedUpdates, j, log, aggBy,
                   startLock, crash, budget>>

Next ==
    \/ BeginRun
    \/ PromptShopCreds
    \/ PromptRagCreds
    \/ LoadLock
    \/ PermShopsHead
    \/ PermShopsCred
    \/ PermRagsHead
    \/ PermRagsCred
    \/ InitShop
    \/ InitRag
    \/ PollShop
    \/ GatherDone
    \/ ReplayFile
    \/ Finalize
    \/ SaveLock

Spec == Init /\ [][Next]_vars

(***************************************************************************)
(* loadOrInitializeLockJson on its own: the lock files a directory may     *)
(* hold, those of an earlier version without pluginPermissions included,   *)
(* and the one step that loads them.                                       *)
(***************************************************************************)
LastUsedMaps ==
    UNION {[S -> 1..MaxClock] : S \in SUBSET {getShopIdentifier("demo", 0)}}

OriginMaps ==
    UNION {[S -> [shopIdentifier : {getShopIdentifier("demo", 0)},
                  lastUpdated : 1..MaxClock]] : S \in SUBSET FileIds}

PermissionMaps == {EmptyObj, "UNOFFICIAL:x" :> <<"k1">>}

LockFiles ==
    {NoFile}
    \cup {[exists |-> TRUE, data |-> d] :
            d \in [shopLastUsed : LastUsedMaps, fileOrigins : OriginMaps,
                   pluginPermissions : PermissionMaps]}
    \cup {[exists |-> TRUE, data |-> d] :
            d \in [shopLastUsed : LastUsedMaps, fileOrigins : OriginMaps]}

LoadInit ==
    /\ shopragFile \in Configs
    /\ AllOfficial(shopragFile.Shops) /\ AllOfficial(shopragFile.RAGs)
    /\ lockFile \in LockFiles
    /\ credsFile = EmptyObj
    /\ clock = 1
    /\ runs = 0
    /\ pc = "idle"
    /\ shopragData = [Shops |-> <<>>, RAGs |-> <<>>]
    /\ creds = EmptyObj
    /\ shops = <<>>
    /\ rags = <<>>
    /\ lockData = EmptyLock
    /\ i = 0
    /\ permKeys = <<>>
    /\ permAlias = FALSE
    /\ permName = ""
    /\ permInst = NoInstance
    /\ aggregatedUpdates = <<>>
    /\ j = 0
    /\ log = <<>>
    /\ aggBy = EmptyObj
    /\ startLock = NoFile
    /\ lockWrites = 0
    /\ crash = "none"
    /\ emitted = 0
    /\ failures = 0

\* let lockData = loadOrInitializeLockJson()
LoadLockJson ==
    /\ pc = "idle"
    /\ lockData' = loadOrInitializeLockJson(lockFile)
    /\ startLock' = lockFile
    /\ pc' = "loaded"
    /\ UNCHANGED <<disk, clock, runs, shopragData, creds, shops, rags, i, permLocals,
                   aggregatedUpdates, j, log, aggBy, lockWrites, crash, budget>>

LoadNext == LoadLockJson

LoadSpec == LoadInit /\ [][LoadNext]_vars

(***************************************************************************)
(* The making of a project: a directory without shoprag.json, the commands *)
(* create and config with the config editor, and the default command as it *)
(* runs where no shoprag.json is found.  (A run of a project that has      *)
(* Shops and RAGs is Spec.)                                                *)
(***************************************************************************)
CreateInit ==
    /\ shopragFile = NoProject
    /\ lockFile = NoFile
    /\ credsFile = EmptyObj
    /\ clock = 1
    /\ runs = 0
    /\ pc = "idle"
    /\ shopragData = EmptyProject
    /\ creds = EmptyObj
    /\ shops = <<>>
    /\ rags = <<>>
    /\ lockData = EmptyLock
    /\ i = 0
    /\ permKeys = <<>>
    /\ permAlias = FALSE
    /\ permName = ""
    /\ permInst = NoInstance
    /\ aggregatedUpdates = <<>>
    /\ j = 0
    /\ log = <<>>
    /\ aggBy = EmptyObj
    /\ startLock = NoFile
    /\ lockWrites = 0
    /\ crash = "none"
    /\ emitted = 0
    /\ failures = 0

\* what no command touches while the project is made
editorFrame ==
    <<lockFile, credsFile, clock, runs, creds, shops, rags, lockData, i, permLocals,
      aggregatedUpdates, j, ghost, crash, budget>>

\* shoprag create: asks before it overwrites a project, then createShopragJson
\* and runConfigEditor
CreateCommand ==
    /\ pc \in {"idle", "done", "crashed"}
    /\ \E overwrite \in BOOLEAN :
         IF shopragFile # NoProject /\ ~overwrite
         THEN UNCHANGED <<shopragFile, shopragData, log, pc>>
         ELSE /\ shopragFile' = EmptyProject
              /\ shopragData' = EmptyProject
              /\ log' = <<Event("projectName")>>
              /\ pc' = "editor"
    /\ UNCHANGED editorFrame

\* shoprag config: runConfigEditor, which makes a default project if there
\* is none
ConfigCommand ==
    /\ pc \in {"idle", "done", "crashed"}
    /\ LET project == IF shopragFile = NoProject THEN EmptyProject ELSE shopragFile
       IN  /\ shopragFile' = project
           /\ shopragData' = project
    /\ log' = <<>>
    /\ pc' = "editor"
    /\ UNCHANGED editorFrame

\* case 'addShop'
AddShop ==
    /\ pc = "editor"
    /\ Len(shopragData.Shops) < MaxShops
    /\ \E shopPlugin \in ShopPlugins :
         LET data == [shopragData EXCEPT !.Shops = Append(@, shopPlugin)]
         IN  /\ shopragData' = data
             /\ shopragFile' = data
    /\ UNCHANGED <<pc, log, editorFrame>>

\* case 'removeShop'
RemoveShop ==
    /\ pc = "editor"
    /\ \E shopIndex \in 0..(Len(shopragData.Shops) - 1) :
         LET data == [shopragData EXCEPT !.Shops = Splice1(@, shopIndex)]
         IN  /\ shopragData' = data
             /\ shopragFile' = data
    /\ UNCHANGED <<pc, log, editorFrame>>

\* case 'addRag'
AddRag ==
    /\ pc = "editor"
    /\ Len(shopragData.RAGs) < MaxRags
    /\ \E ragPlugin \in RagPlugins :
         LET data == [shopragData EXCEPT !.RAGs = Append(@, ragPlugin)]
         IN  /\ shopragData' = data
             /\ shopragFile' = data
    /\ UNCHANGED <<pc, log, editorFrame>>

\* case 'removeRag'
RemoveRag ==
    /\ pc = "editor"
    /\ \E ragIndex \in 0..(Len(shopragData.RAGs) - 1) :
         LET data == [shopragData EXCEPT !.RAGs = Splice1(@, ragIndex)]
         IN  /\ shopragData' = data
             /\ shopragFile' = data
    /\ UNCHANGED <<pc, log, editorFrame>>

\* case 'exit'
ExitEditor ==
    /\ pc = "editor"
    /\ pc' = "idle"
    /\ UNCHANGED <<shopragFile, shopragData, log, editorFrame>>

\* shoprag, where loadShopragJson() finds nothing
RunWithoutProject ==
    /\ shopragFile = NoProject
    /\ BeginRun

CreateNext ==
    \/ CreateCommand
    \/ ConfigCommand
    \/ AddShop
    \/ RemoveShop
    \/ AddRag
    \/ RemoveRag
    \/ ExitEditor
    \/ RunWithoutProject
    \/ PromptShopCreds
    \/ LoadLock
    \/ PermShopsHead
    \/ PermRagsHead
    \/ InitShop
    \/ InitRag
    \/ GatherDone
    \/ SaveLock

CreateSpec == CreateInit /\ [][CreateNext]_vars

(***************************************************************************)
(* A project that is run, edited and run again: the runs of Spec, and      *)
(* between them the config editor, in which the user removes Shops.        *)
(***************************************************************************)
EditConfigs ==
    {c \in Configs : \/ c.Shops = <<"demo", "UNOFFICIAL:x">> /\ AllOfficial(c.RAGs)
                     \/ c.RAGs = <<"dir", "UNOFFICIAL:y">> /\ AllOfficial(c.Shops)}

EditInit ==
    /\ shopragFile \in EditConfigs
    /\ lockFile = NoFile
    /\ credsFile = EmptyObj
    /\ clock = 1
    /\ runs = 0
    /\ pc = "idle"
    /\ shopragData = [Shops |-> <<>>, RAGs |-> <<>>]
    /\ creds = EmptyObj
    /\ shops = <<>>
    /\ rags = <<>>
    /\ lockData = EmptyLock
    /\ i = 0
    /\ permKeys = <<>>
    /\ permAlias = FALSE
    /\ permName = ""
    /\ permInst = NoInstance
    /\ aggregatedUpdates = <<>>
    /\ j = 0
    /\ log = <<>>
    /\ aggBy = EmptyObj
    /\ startLock = NoFile
    /\ lockWrites = 0
    /\ crash = "none"
    /\ emitted = 0
    /\ failures = 0

EditNext ==
    \/ Next
    \/ ConfigCommand
    \/ RemoveShop
    \/ ExitEditor

EditSpec == EditInit /\ [][EditNext]_vars

(***************************************************************************)
(* What the properties below speak of.                                     *)
(***************************************************************************)
\* The calls the RAGs received in step 7, in order
RagCalls == SelectSeq(log, LAMBDA e : e.op \in FileOps \cup {"finalize"})

\* A call without its outcome: the RAG, the method and its arguments
Shape(e) == <<e.pos, e.op, e.id, e.content>>

\* The calls step 7 makes to the RAG at index p when nothing aborts it
ReplayOf(p) ==
    [n \in 1..(Len(aggregatedUpdates) + 1) |->
        IF n <= Len(aggregatedUpdates)
        THEN LET u == aggregatedUpdates[n]
             IN  <<p, MethodOf(u), u.id,
                   IF u.action = "delete" THEN "" ELSE ContentOrEmpty(u.content)>>
        ELSE <<p, "finalize", "", "">>]

RECURSIVE ReplayFrom(_)
ReplayFrom(p) == IF p >= Len(rags) THEN <<>> ELSE ReplayOf(p) \o ReplayFrom(p + 1)

IsPrefix(s, t) == Len(s) <= Len(t) /\ \A n \in DOMAIN s : s[n] = t[n]

Shapes(calls) == [n \in DOMAIN calls |-> Shape(calls[n])]

\* obj[key], or "absent"
Entry(obj, key) == IF key \in DOMAIN obj THEN <<"is", obj[key]>> ELSE <<"absent">>

\* The run is past the loop over the Shops
Gathered == pc \in {"replay", "save", "done"} \/ (pc = "crashed" /\ crash = "finalize")

\* The fileIds a returned diff holds
IdsOf(shopUpdates) == {shopUpdates[n].id : n \in DOMAIN shopUpdates}

(***************************************************************************)
(* C1.  As claimed: in every run finalize is called on every RAG, also     *)
(* when nothing was gathered.  Stated for the runs that reach their end.   *)
(***************************************************************************)
C1_FinalizeInEveryRun ==
    pc = "done" =>
        \A p \in 0..(Len(rags) - 1) :
            \E n \in CallsOf({"finalize"}) : log[n].pos = p

\* C1, amended: a run that reaches its end has called finalize on every RAG
\* exactly when aggregatedUpdates is not empty; when it is empty (every Shop
\* returned nothing or failed) no RAG receives any call, finalize included,
\* and the lock file is written all the same.
C1_FinalizeOnlyWithUpdates ==
    /\ (Gathered /\ aggregatedUpdates = <<>>) => RagCalls = <<>>
    /\ pc = "done" =>
         /\ lockWrites = 1
         /\ \A p \in 0..(Len(rags) - 1) :
              (aggregatedUpdates # <<>>) <=>
                 (\E n \in CallsOf({"finalize"}) : log[n].pos = p)

C1_Witness ==
    /\ pc = "done"
    /\ aggregatedUpdates = <<>>
    /\ Len(rags) = 2
    /\ \E n \in CallsOf({"update"}) : log[n].ok
    /\ CallsOf({"finalize"}) = {}

(***************************************************************************)
(* C2.  A Shop whose update failed keeps the shopLastUsed it had before    *)
(* the run (or none); every Shop whose update returned is marked with the  *)
(* time of the call.  This holds of the lock data from the call on, and of *)
(* the lock file the run writes.                                           *)
(***************************************************************************)
C2_LastUsedSurvivesFailure ==
    /\ \A n \in CallsOf({"update"}) :
         LET e == log[n]
         IN  IF e.ok
             THEN /\ Entry(lockData.shopLastUsed, e.id) = <<"is", e.now>>
                  /\ e.now <= clock
                  /\ e.now >= e.lastUsed
             ELSE Entry(lockData.shopLastUsed, e.id) = Entry(StartData.shopLastUsed, e.id)
    /\ pc = "done" => lockFile.data.shopLastUsed = lockData.shopLastUsed

C2_Witness ==
    /\ pc = "done"
    /\ \E m, n \in CallsOf({"update"}) :
         /\ ~log[m].ok
         /\ log[m].id \in DOMAIN StartData.shopLastUsed
         /\ log[n].ok
         /\ lockFile.data.shopLastUsed[log[n].id] > StartData.shopLastUsed[log[m].id]
         /\ lockFile.data.shopLastUsed[log[m].id] = StartData.shopLastUsed[log[m].id]

(***************************************************************************)
(* C3.  A failed update does not abort the run: the run is never aborted   *)
(* at a call of update, every Shop of the list is polled whatever the      *)
(* others did, and a run that ends holds in aggregatedUpdates every file   *)
(* the other Shops returned, has replayed them to every RAG and has        *)
(* written the lock data.                                                  *)
(***************************************************************************)
C3_UpdateFailureContinues ==
    /\ pc = "crashed" => (log = <<>> \/ log[Len(log)].op # "update")
    /\ pc = "gather" =>
         /\ Cardinality(CallsOf({"update"})) = Min(i, Len(shops))
         /\ ENABLED (PollShop \/ GatherDone)
    /\ Gathered =>
         /\ Cardinality(CallsOf({"update"})) = Len(shops)
         /\ \A p \in 0..(Len(shops) - 1) :
              \E n \in CallsOf({"update"}) : log[n].pos = p /\ log[n].inst = shops[p + 1]
    /\ pc = "done" =>
         /\ lockFile = saveLockJson(lockData)
         /\ \A n \in CallsOf({"update"}) : \A f \in IdsOf(log[n].updates) :
              /\ f \in Keys(aggregatedUpdates)
              /\ \A p \in 0..(Len(rags) - 1) :
                   \E m \in CallsOf(FileOps) : log[m].pos = p /\ log[m].id = f

C3_Witness ==
    /\ pc = "done"
    /\ Len(rags) = 2
    /\ \E m, n \in CallsOf({"update"}) :
         /\ ~log[m].ok /\ log[m].pos = 0
         /\ log[n].ok /\ log[n].pos = 1 /\ log[n].updates # <<>>

(***************************************************************************)
(* C4.  A failed addFile, updateFile or deleteFile stops nothing: the run  *)
(* is never aborted at such a call, the calls the RAGs receive are always  *)
(* the beginning of the full replay (for each RAG in turn every entry of   *)
(* aggregatedUpdates, the failed ones included, then finalize), whatever   *)
(* failed, and a run that ends has made all of them.                       *)
(***************************************************************************)
C4_FileFailureIsolated ==
    /\ pc = "crashed" => (log = <<>> \/ log[Len(log)].op \notin FileOps)
    /\ IsPrefix(Shapes(RagCalls), ReplayFrom(0))
    /\ pc = "replay" =>
         /\ Len(RagCalls) = i * (Len(aggregatedUpdates) + 1) + j
         /\ ENABLED (ReplayFile \/ Finalize)
    /\ (pc = "done" /\ aggregatedUpdates # <<>>) => Shapes(RagCalls) = ReplayFrom(0)

C4_Witness ==
    /\ pc = "done"
    /\ Len(rags) = 2
    /\ Len(aggregatedUpdates) = 2
    /\ \E n \in CallsOf(FileOps) :
         /\ ~log[n].ok
         /\ log[n].pos = 0
         /\ log[n].id = aggregatedUpdates[1].id
         /\ log[n + 1].op \in FileOps /\ log[n + 1].pos = 0
         /\ log[n + 2].op = "finalize" /\ log[n + 2].pos = 0
         /\ \E m \in CallsOf(FileOps) : log[m].pos = 1 /\ log[m].id = log[n].id

(***************************************************************************)
(* C5.  As claimed: a failing init excludes its instance alone, the run    *)
(* goes on with the others and writes the lock file.                       *)
(***************************************************************************)
C5_InitFailureIsolated ==
    (\E n \in CallsOf({"init"}) : ~log[n].ok) =>
        /\ pc # "crashed"
        /\ pc = "done" => lockWrites = 1

(***************************************************************************)
(* C6.  As claimed: no failure of a plugin ends the run; after a failing   *)
(* finalize the RAGs that follow are replayed and the lock file written.   *)
(***************************************************************************)
C6_FinalizeFailureIsolated ==
    (\E n \in CallsOf({"finalize"}) : ~log[n].ok) =>
        /\ pc # "crashed"
        /\ pc = "done" => (lockWrites = 1 /\ Shapes(RagCalls) = ReplayFrom(0))

(***************************************************************************)
(* C7.  The lock file is written once per run, as the last step, after     *)
(* every Shop was polled and every RAG replayed; until then, and in a run  *)
(* that is aborted, the file is the one the run found.                     *)
(***************************************************************************)
C7_LockWrittenOnceAtEnd ==
    /\ pc \notin {"idle", "done"} => (lockFile = startLock /\ lockWrites = 0)
    /\ pc = "done" =>
         /\ lockWrites = 1
         /\ lockFile = [exists |-> TRUE, data |-> lockData]
         /\ Cardinality(CallsOf({"update"})) = Len(shops)
         /\ aggregatedUpdates # <<>> => Shapes(RagCalls) = ReplayFrom(0)

C7_Witness ==
    /\ pc = "crashed"
    /\ crash = "finalize"
    /\ startLock.exists
    /\ lockData # startLock.data
    /\ lockFile = startLock

(***************************************************************************)
(* C8.  As claimed: the lock file a run writes holds a new or refreshed    *)
(* record of a file only if addFile or updateFile succeeded on every RAG,  *)
(* and lacks a record it found only if deleteFile succeeded on every RAG.  *)
(***************************************************************************)
Succeeded(p, ops, f) == \E n \in CallsOf(ops) : log[n].pos = p /\ log[n].id = f /\ log[n].ok

C8_CommittedOnlyIfApplied ==
    pc = "done" =>
        \A f \in FileIds :
            LET before == Entry(StartData.fileOrigins, f)
                after == Entry(lockFile.data.fileOrigins, f)
            IN  /\ (after # before /\ after # <<"absent">>) =>
                     \A p \in 0..(Len(rags) - 1) : Succeeded(p, {"addFile", "updateFile"}, f)
                /\ (after # before /\ after = <<"absent">>) =>
                     \A p \in 0..(Len(rags) - 1) : Succeeded(p, {"deleteFile"}, f)

\* C8, amended: the lock file a run writes follows what the Shops returned,
\* whatever the RAGs did with it: a file has a record if aggregatedUpdates
\* holds an add or update for it, none if it holds a delete, and the record
\* the run found if it holds nothing for it.
C8_CommittedAsGathered ==
    pc = "done" =>
        \A f \in FileIds :
            LET after == Entry(lockFile.data.fileOrigins, f)
            IN  IF f \in Keys(aggregatedUpdates)
                THEN (Get(aggregatedUpdates, f).action = "delete") <=> (after = <<"absent">>)
                ELSE after = Entry(StartData.fileOrigins, f)

C8_Witness ==
    /\ pc = "done"
    /\ \E n \in CallsOf({"addFile"}) :
         /\ ~log[n].ok
         /\ log[n].id \notin DOMAIN StartData.fileOrigins
         /\ log[n].id \in DOMAIN lockFile.data.fileOrigins

(***************************************************************************)
(* C9.  In the lock file a run writes, every file aggregatedUpdates holds  *)
(* as add or update has a record whose shopIdentifier is that of the Shop  *)
(* that returned the entry, and every file it holds as delete has none.    *)
(***************************************************************************)
\* The Shop with this identifier returned this entry in this run
Returned(shopIdentifier, updateObj) ==
    \E n \in CallsOf({"update"}) :
        log[n].ok /\ log[n].id = shopIdentifier /\ Includes(log[n].updates, updateObj)

C9_OwnerAfterCommit ==
    pc = "done" =>
        \A n \in DOMAIN aggregatedUpdates :
            LET u == aggregatedUpdates[n]
                origins == lockFile.data.fileOrigins
            IN  /\ Returned(aggBy[u.id], u)
                /\ IF u.action = "delete"
                   THEN u.id \notin DOMAIN origins
                   ELSE /\ u.id \in DOMAIN origins
                        /\ origins[u.id].shopIdentifier = aggBy[u.id]

C9_Witness ==
    /\ pc = "done"
    /\ \E n \in DOMAIN aggregatedUpdates :
         LET u == aggregatedUpdates[n]
         IN  /\ u.action # "delete"
             /\ u.id \in DOMAIN StartData.fileOrigins
             /\ StartData.fileOrigins[u.id].shopIdentifier # aggBy[u.id]
             /\ lockFile.data.fileOrigins[u.id].shopIdentifier = aggBy[u.id]

(***************************************************************************)
(* C10.  As claimed: a file two Shops returned in one run has, after the   *)
(* run, a record whose shopIdentifier is that of the later of the two.     *)
(***************************************************************************)
\* The calls of update of this run that returned an entry for f
Emitters(f) == {n \in CallsOf({"update"}) : log[n].ok /\ f \in IdsOf(log[n].updates)}

Last(S) == CHOOSE n \in S : \A m \in S : m <= n

C10_LaterOwnerExists ==
    pc = "done" =>
        \A f \in FileIds :
            Cardinality(Emitters(f)) >= 2 =>
                /\ f \in DOMAIN lockFile.data.fileOrigins
                /\ lockFile.data.fileOrigins[f].shopIdentifier = log[Last(Emitters(f))].id

\* C10, amended: a file two Shops returned in one run has, after the run, a
\* record whose shopIdentifier is that of the later of the two if the later
\* one returned add or update for it, and no record if it returned delete.
C10_LaterOwnerUnlessDeleted ==
    pc = "done" =>
        \A f \in FileIds :
            Cardinality(Emitters(f)) >= 2 =>
                LET later == log[Last(Emitters(f))]
                    origins == lockFile.data.fileOrigins
                IN  IF Get(later.updates, f).action = "delete"
                    THEN f \notin DOMAIN origins
                    ELSE /\ f \in DOMAIN origins
                         /\ origins[f].shopIdentifier = later.id

C10_Witness ==
    /\ pc = "done"
    /\ \E f \in FileIds :
         /\ Cardinality(Emitters(f)) = 2
         /\ Get(log[Last(Emitters(f))].updates, f).action = "delete"
         /\ f \in DOMAIN StartData.fileOrigins
         /\ f \notin DOMAIN lockFile.data.fileOrigins

(***************************************************************************)
(* C11.  aggregatedUpdates holds, for every file some Shop returned in the *)
(* run, the entry (action and content) of the last Shop whose update       *)
(* returned one for it, and nothing for any other file.                    *)
(***************************************************************************)
C11_LastSourceWins ==
    \A f \in FileIds :
        IF Emitters(f) = {}
        THEN f \notin Keys(aggregatedUpdates)
        ELSE /\ f \in Keys(aggregatedUpdates)
             /\ Get(aggregatedUpdates, f) = Get(log[Last(Emitters(f))].updates, f)

C11_Witness ==
    /\ pc = "done"
    /\ \E f, g \in FileIds :
         /\ Cardinality(Emitters(f)) >= 2
         /\ \E m \in Emitters(f) : Get(log[m].updates, f) # Get(aggregatedUpdates, f)
         /\ Cardinality(Emitters(g)) = 1
         /\ Get(aggregatedUpdates, g) = Get(log[Last(Emitters(g))].updates, g)

(***************************************************************************)
(* C12.  As claimed: a file for which some Shop returned a delete in the   *)
(* run has no record after the run, and every RAG received deleteFile for  *)
(* it.                                                                     *)
(***************************************************************************)
\* The Shops whose update returned a delete for f
Deleters(f) == {n \in Emitters(f) : Get(log[n].updates, f).action = "delete"}

\* Every RAG received a call of deleteFile for f
DeletedEverywhere(f) ==
    \A p \in 0..(Len(rags) - 1) :
        \E n \in CallsOf({"deleteFile"}) : log[n].pos = p /\ log[n].id = f

C12_DeleteRemoves ==
    pc = "done" =>
        \A f \in FileIds :
            Deleters(f) # {} =>
                (f \notin DOMAIN lockFile.data.fileOrigins /\ DeletedEverywhere(f))

\* C12, amended: a file has no record after the run and every RAG received
\* deleteFile for it when the last Shop that returned an entry for it
\* returned a delete; when a later Shop returned an add or update for it, the
\* file has a record and no RAG received deleteFile for it.
C12_LastDeleteRemoves ==
    pc = "done" =>
        \A f \in FileIds :
            Deleters(f) # {} =>
                IF Last(Emitters(f)) \in Deleters(f)
                THEN f \notin DOMAIN lockFile.data.fileOrigins /\ DeletedEverywhere(f)
                ELSE /\ f \in DOMAIN lockFile.data.fileOrigins
                     /\ \A n \in CallsOf({"deleteFile"}) : log[n].id # f

C12_Witness ==
    /\ pc = "done"
    /\ Len(rags) = 2
    /\ \E f \in FileIds :
         /\ Cardinality(Emitters(f)) = 1
         /\ Deleters(f) # {}
         /\ f \in DOMAIN StartData.fileOrigins
         /\ f \notin DOMAIN lockFile.data.fileOrigins
         /\ DeletedEverywhere(f)

(***************************************************************************)
(* C13.  As claimed: every file a Shop polled with empty existingFiles     *)
(* returned as add has after the run a record with that Shop's identifier, *)
(* the plugin name followed by the index in brackets.                      *)
(***************************************************************************)
\* The calls of update that got no existing files and returned
FirstPolls ==
    {n \in CallsOf({"update"}) : log[n].ok /\ DOMAIN log[n].existingFiles = {}}

\* The files the call returned as add
AddsOf(n) == {log[n].updates[k].id : k \in {m \in DOMAIN log[n].updates :
                                                log[n].updates[m].action = "add"}}

\* The file has a record with the identifier of the Shop of call n
OwnedByCaller(f, n) ==
    /\ f \in DOMAIN lockFile.data.fileOrigins
    /\ lockFile.data.fileOrigins[f].shopIdentifier
           = log[n].from \o "[" \o ToString(log[n].pos) \o "]"

C13_FirstRunPopulation ==
    pc = "done" =>
        \A n \in FirstPolls : \A f \in AddsOf(n) : OwnedByCaller(f, n)

\* C13, amended: the same, for the files no Shop polled later in the run
\* returned an entry for.
C13_FirstRunPopulationUnlessOverwritten ==
    pc = "done" =>
        \A n \in FirstPolls : \A f \in AddsOf(n) :
            Last(Emitters(f)) = n => OwnedByCaller(f, n)

C13_Witness ==
    /\ pc = "done"
    /\ \E n \in FirstPolls : \E f \in AddsOf(n) :
         /\ Last(Emitters(f)) = n
         /\ log[n].pos = 1
         /\ OwnedByCaller(f, n)

(***************************************************************************)
(* C14.  A run in which every Shop returned nothing leaves every record of *)
(* fileOrigins as it found it and changes shopLastUsed only for the Shops  *)
(* whose update returned, to the time of the call; runs in a row that      *)
(* gathered nothing leave fileOrigins as it was before the first of them.  *)
(***************************************************************************)
AllEmpty == \A n \in CallsOf({"update"}) : log[n].updates = <<>>

\* The calls of update that returned, for the Shop with this identifier
PolledOk(shopIdentifier) ==
    {n \in CallsOf({"update"}) : log[n].ok /\ log[n].id = shopIdentifier}

C14_EmptyDiffsKeepOrigins ==
    (pc = "done" /\ AllEmpty) =>
        /\ \A f \in FileIds :
             Entry(lockFile.data.fileOrigins, f) = Entry(StartData.fileOrigins, f)
        /\ \A id \in (DOMAIN lockFile.data.shopLastUsed) \cup (DOMAIN StartData.shopLastUsed) :
             IF PolledOk(id) = {}
             THEN Entry(lockFile.data.shopLastUsed, id) = Entry(StartData.shopLastUsed, id)
             ELSE /\ id \in DOMAIN lockFile.data.shopLastUsed
                  /\ \E n \in PolledOk(id) : lockFile.data.shopLastUsed[id] = log[n].now
                  /\ id \in DOMAIN StartData.shopLastUsed =>
                        lockFile.data.shopLastUsed[id] >= StartData.shopLastUsed[id]
        /\ (runs >= 2 /\ emitted = 0) => DOMAIN lockFile.data.fileOrigins = {}

C14_Witness ==
    /\ pc = "done"
    /\ runs = 2
    /\ AllEmpty
    /\ DOMAIN StartData.fileOrigins # {}
    /\ \A f \in FileIds :
         Entry(lockFile.data.fileOrigins, f) = Entry(StartData.fileOrigins, f)
    /\ \E id \in DOMAIN StartData.shopLastUsed :
         /\ PolledOk(id) # {}
         /\ lockFile.data.shopLastUsed[id] > StartData.shopLastUsed[id]

(***************************************************************************)
(* C15.  At the end of a run that gathered something, every RAG has        *)
(* received one file call for each file of aggregatedUpdates (addFile for  *)
(* add, updateFile for update, deleteFile for delete, with the content of  *)
(* the entry), then one finalize, and no other file call.                  *)
(***************************************************************************)
\* The file calls the RAG at index p received for f
FileCalls(p, f) == {n \in CallsOf(FileOps) : log[n].pos = p /\ log[n].id = f}

FinalizeCalls(p) == {n \in CallsOf({"finalize"}) : log[n].pos = p}

\* Call n is the one the entry u asks for
Applies(n, u) ==
    /\ log[n].op = (IF u.action = "add" THEN "addFile"
                    ELSE IF u.action = "update" THEN "updateFile" ELSE "deleteFile")
    /\ log[n].content = (IF u.action = "delete" \/ u.content = Undefined THEN ""
                         ELSE u.content)

C15_OneCallPerFileThenFinalize ==
    (pc = "done" /\ aggregatedUpdates # <<>>) =>
        \A p \in 0..(Len(rags) - 1) :
            /\ \A k \in DOMAIN aggregatedUpdates :
                 /\ Cardinality(FileCalls(p, aggregatedUpdates[k].id)) = 1
                 /\ \A n \in FileCalls(p, aggregatedUpdates[k].id) :
                        Applies(n, aggregatedUpdates[k])
            /\ Cardinality(FinalizeCalls(p)) = 1
            /\ \A n \in CallsOf(FileOps) :
                 log[n].pos = p =>
                    /\ log[n].id \in Keys(aggregatedUpdates)
                    /\ \A m \in FinalizeCalls(p) : n < m

C15_Witness ==
    /\ pc = "done"
    /\ Len(rags) = 2
    /\ Len(aggregatedUpdates) = 2
    /\ \E k \in DOMAIN aggregatedUpdates : aggregatedUpdates[k].action = "update"
    /\ \E n \in CallsOf(FileOps) : ~log[n].ok
    /\ \A p \in 0..1 : Cardinality(FinalizeCalls(p)) = 1
    /\ Cardinality(CallsOf(FileOps)) = 4

(***************************************************************************)
(* C16.  As claimed: the lastUpdated of the record of a file a Shop added  *)
(* or updated in the run is the time written to shopLastUsed for that Shop *)
(* in the run.                                                             *)
(***************************************************************************)
\* The files whose record after the run was written for call n
WrittenBy(n) ==
    {f \in IdsOf(log[n].updates) :
        Last(Emitters(f)) = n /\ Get(log[n].updates, f).action # "delete"}

C16_OneNowPerSource ==
    pc = "done" =>
        \A n \in {m \in CallsOf({"update"}) : log[m].ok} : \A f \in WrittenBy(n) :
            /\ lockFile.data.shopLastUsed[log[n].id] = log[n].now
            /\ lockFile.data.fileOrigins[f].lastUpdated = log[n].now

\* C16, amended: the lastUpdated of such a record is a reading of the clock
\* of its own, taken after the one written to shopLastUsed: it is that time
\* or a later one, and no later than the end of the run.
C16_LastUpdatedNotBeforeLastUsed ==
    pc = "done" =>
        \A n \in {m \in CallsOf({"update"}) : log[m].ok} : \A f \in WrittenBy(n) :
            /\ lockFile.data.shopLastUsed[log[n].id] = log[n].now
            /\ lockFile.data.fileOrigins[f].lastUpdated >= log[n].now
            /\ lockFile.data.fileOrigins[f].lastUpdated <= clock

C16_Witness ==
    /\ pc = "done"
    /\ \E n \in {m \in CallsOf({"update"}) : log[m].ok} : \E f \in WrittenBy(n) :
         lockFile.data.fileOrigins[f].lastUpdated > lockFile.data.shopLastUsed[log[n].id]

(***************************************************************************)
(* C17.  As claimed: an instance of an unofficial plugin is initialized    *)
(* with the credentials it declares that pluginPermissions lists for its   *)
(* plugin, and with no other.                                              *)
(***************************************************************************)
\* The credentials the plugin declares
Declared(plugin) == Range(requiredCredentials(plugin))

C17_UnofficialGetsOnlyAllowed ==
    \A n \in CallsOf({"init"}) :
        IsUnofficial(log[n].inst.plugin) =>
            DOMAIN log[n].creds
                = Declared(log[n].inst.plugin) \cap Range(Permissions(log[n].inst.plugin))

PluginCalls == CallsOf({"init", "update", "finalize"} \cup FileOps)

C19_DeniedInstanceDropped ==
    \A m \in CallsOf({"permit"}) :
        ~log[m].ok => \A n \in PluginCalls : log[n].inst # log[m].inst

(***************************************************************************)
(* C20.  As claimed: a run never changes shoprag.json.                     *)
(***************************************************************************)
C20_ConfigNeverChanges == [][shopragFile' = shopragFile]_vars

\* The user has just denied a credential
Denied(before, after) ==
    /\ Len(after) = Len(before) + 1
    /\ after[Len(after)].op = "permit"
    /\ ~after[Len(after)].ok

\* list without one of its entries, the others in their order
OneRemoved(list, shorter) ==
    \E k \in DOMAIN list :
        shorter = [n \in 1..(Len(list) - 1) |-> IF n < k THEN list[n] ELSE list[n + 1]]

\* C20, amended: a run changes shoprag.json only when the user denies a
\* credential to an unofficial plugin: each denial removes one entry from the
\* list being looked at (Shops or RAGs) and writes the file at once; nothing
\* else in the run changes it.
C20_ConfigChangesOnlyOnDenial ==
    [][/\ shopragFile' # shopragFile =>
            /\ Denied(log, log')
            /\ shopragFile' = shopragData'
            /\ IF log'[Len(log')].kind = "shop"
               THEN /\ OneRemoved(shopragFile.Shops, shopragFile'.Shops)
                    /\ shopragFile'.RAGs = shopragFile.RAGs
               ELSE /\ OneRemoved(shopragFile.RAGs, shopragFile'.RAGs)
                    /\ shopragFile'.Shops = shopragFile.Shops
       /\ Denied(log, log') => shopragFile' = shopragData'
      ]_vars

C20_Witness ==
    /\ pc = "done"
    /\ \E m \in CallsOf({"permit"}) : ~log[m].ok
    /\ shopragFile = shopragData
    /\ Len(shopragFile.Shops) + Len(shopragFile.RAGs) < MaxShops + MaxRags

(***************************************************************************)
(* C21.  A credential the user allowed to an unofficial plugin is in the   *)
(* plugin's list of pluginPermissions in the lock file the run writes; no  *)
(* run asks for a pair (plugin, credential) that the lock file it found    *)
(* lists, nor twice for a pair it was allowed.                             *)
(***************************************************************************)
\* The lock data lists cred for the plugin
Listed(data, name, cred) ==
    /\ name \in DOMAIN data.pluginPermissions
    /\ Includes(data.pluginPermissions[name], cred)

C21_GrantPersisted ==
    /\ pc = "done" =>
         \A m \in CallsOf({"permit"}) :
            log[m].ok => Listed(lockFile.data, log[m].from, log[m].id)
    /\ \A m \in CallsOf({"permit"}) :
         /\ ~Listed(StartData, log[m].from, log[m].id)
         /\ \A n \in CallsOf({"permit"}) :
              (m < n /\ log[m].ok) =>
                  ~(log[n].from = log[m].from /\ log[n].id = log[m].id)

C21_Witness ==
    /\ pc = "done"
    /\ runs = 2
    /\ \E n \in DOMAIN shops :
         /\ IsUnofficial(shops[n].plugin)
         /\ shopragData.Shops[n] = shops[n].plugin
         /\ \A c \in Declared(shops[n].plugin) : Listed(StartData, shops[n].plugin, c)
    /\ CallsOf({"permit"}) = {}

C23_LastUsedSetOnSuccess ==
    \A n \in CallsOf({"update"}) :
        log[n].ok =>
            /\ log[n].id \in DOMAIN lockData.shopLastUsed
            /\ lockData.shopLastUsed[log[n].id] = log[n].now
            /\ log[n].lastUsed <= log[n].now
            /\ log[n].now <= clock

C23_Witness ==
    /\ pc = "done"
    /\ \E n \in CallsOf({"update"}) :
         /\ log[n].ok
         /\ log[n].updates = <<>>
         /\ log[n].lastUsed > 0
         /\ lockFile.data.shopLastUsed[log[n].id] = log[n].now
         /\ log[n].now > log[n].lastUsed

(***************************************************************************)
(* C24.  With no lock file the lock data starts with shopLastUsed,         *)
(* fileOrigins and pluginPermissions all empty; with a lock file that has  *)
(* no pluginPermissions it starts with an empty pluginPermissions and the  *)
(* shopLastUsed and fileOrigins of the file.                               *)
(***************************************************************************)
C24_LockAsLoaded ==
    pc = "loaded" =>
        /\ DOMAIN lockData = {"shopLastUsed", "fileOrigins", "pluginPermissions"}
        /\ ~lockFile.exists =>
             /\ DOMAIN lockData.shopLastUsed = {}
             /\ DOMAIN lockData.fileOrigins = {}
             /\ DOMAIN lockData.pluginPermissions = {}
        /\ (lockFile.exists /\ "pluginPermissions" \notin DOMAIN lockFile.data) =>
             /\ DOMAIN lockData.pluginPermissions = {}
             /\ lockData.shopLastUsed = lockFile.data.shopLastUsed
             /\ lockData.fileOrigins = lockFile.data.fileOrigins

C24_Witness ==
    /\ pc = "loaded"
    /\ lockFile.exists
    /\ "pluginPermissions" \notin DOMAIN lockFile.data
    /\ DOMAIN lockFile.data.fileOrigins = FileIds
    /\ DOMAIN lockFile.data.shopLastUsed # {}
    /\ DOMAIN lockData.pluginPermissions = {}
    /\ lockData.fileOrigins = lockFile.data.fileOrigins
    /\ lockData.shopLastUsed = lockFile.data.shopLastUsed

(***************************************************************************)
(* C25.  The default command, run where there is no shoprag.json, asks for *)
(* the name of the project, writes a shoprag.json with no Shops and no     *)
(* RAGs and then opens the config editor, as shoprag create does.          *)
(***************************************************************************)
\* the step of a command that found no shoprag.json and asked for a name
Creates == shopragFile = NoProject /\ CallsOf({"projectName"})' # {}

C25_DefaultCommandOpensEditor ==
    [][Creates => (shopragFile' = EmptyProject /\ pc' = "editor")]_vars

(***************************************************************************)
(* C26.  The existingFiles a Shop's update is called with holds the files  *)
(* whose record in the lock data in memory names this Shop at that moment, *)
(* each with the lastUpdated of its record: the files the lock file gave   *)
(* this Shop when the run began, less those a Shop polled earlier in the   *)
(* run has returned (it took or deleted their records).                    *)
(***************************************************************************)
\* The files the Shops polled before call m have returned in this run
TouchedBefore(m) ==
    UNION {IdsOf(log[n].updates) : n \in {k \in CallsOf({"update"}) : k < m /\ log[k].ok}}

\* The files the lock file of the start of the run gives to the Shop
OwnedAtStart(shopIdentifier) ==
    {f \in DOMAIN StartData.fileOrigins :
        StartData.fileOrigins[f].shopIdentifier = shopIdentifier}

C26_ExistingFilesAtCall ==
    \A m \in CallsOf({"update"}) :
        /\ DOMAIN log[m].existingFiles = OwnedAtStart(log[m].id) \ TouchedBefore(m)
        /\ \A f \in DOMAIN log[m].existingFiles :
             log[m].existingFiles[f] = StartData.fileOrigins[f].lastUpdated

C26_Witness ==
    \E m \in CallsOf({"update"}) :
        /\ DOMAIN log[m].existingFiles # {}
        /\ DOMAIN log[m].existingFiles # OwnedAtStart(log[m].id)

(***************************************************************************)
(* C27.  The lastUsed a Shop's update is called with is the shopLastUsed   *)
(* of its identifier in the lock file the run found, 0 if it has none; and *)
(* a run that reaches its end leaves there the time of each Shop it polled *)
(* with success and, for every other identifier, what it found.            *)
(***************************************************************************)
C27_LastUsedAsPersisted ==
    /\ \A m \in CallsOf({"update"}) :
         log[m].lastUsed = (IF log[m].id \in DOMAIN StartData.shopLastUsed
                            THEN StartData.shopLastUsed[log[m].id]
                            ELSE 0)
    /\ pc = "done" =>
         \A id \in (DOMAIN lockFile.data.shopLastUsed) \cup (DOMAIN StartData.shopLastUsed) :
             Entry(lockFile.data.shopLastUsed, id) =
                 (IF PolledOk(id) # {}
                  THEN <<"is", log[Last(PolledOk(id))].now>>
                  ELSE Entry(StartData.shopLastUsed, id))

C27_Witness ==
    /\ runs = 2
    /\ \E m, n \in CallsOf({"update"}) :
         /\ log[m].lastUsed > 0
         /\ log[m].lastUsed = startLock.data.shopLastUsed[log[m].id]
         /\ log[n].lastUsed = 0
         /\ log[n].id \notin DOMAIN startLock.data.shopLastUsed

(***************************************************************************)
(* C28.  The RAGs are replayed one after another in the order of the       *)
(* configuration: the calls to a RAG come after every call to the RAGs     *)
(* before it, each of which has by then had a call for every gathered file *)
(* and, after these, its one finalize, which returned.                     *)
(***************************************************************************)
SinkCalls == CallsOf(FileOps \cup {"finalize"})

C28_SinksOneAfterAnother ==
    /\ \A m, n \in SinkCalls :
         m < n => /\ log[m].pos <= log[n].pos
                  /\ log[m].op = "finalize" => log[m].pos < log[n].pos
    /\ \A n \in SinkCalls :
         /\ log[n].inst = rags[log[n].pos + 1]
         /\ \A q \in 0..(log[n].pos - 1) :
              /\ Cardinality(FinalizeCalls(q)) = 1
              /\ \A k \in FinalizeCalls(q) : log[k].ok /\ k < n
              /\ \A f \in Keys(aggregatedUpdates) :
                   /\ Cardinality(FileCalls(q, f)) = 1
                   /\ \A k \in FileCalls(q, f) : k < Last(FinalizeCalls(q))

C28_Witness ==
    /\ pc = "done"
    /\ Len(aggregatedUpdates) = 2
    /\ Len(rags) = 2
    /\ \A q \in {0, 1} :
         /\ FinalizeCalls(q) # {}
         /\ \A f \in Keys(aggregatedUpdates) : FileCalls(q, f) # {}

(***************************************************************************)
(* C29.  No RAG is called (addFile, updateFile, deleteFile, finalize)      *)
(* before update has been called on every Shop of the run and has returned *)
(* or thrown; no Shop is polled before init has returned for every Shop    *)
(* and every RAG of the run.                                               *)
(***************************************************************************)
\* init has returned for the instance at index p of the list
Initialized(kind, insts, p) ==
    \E m \in CallsOf({"init"}) :
        /\ log[m].kind = kind
        /\ log[m].pos = p
        /\ log[m].inst = insts[p + 1]
        /\ log[m].ok

\* update has been called on the instance at index p of shops
Polled(p) ==
    \E n \in CallsOf({"update"}) : log[n].pos = p /\ log[n].inst = shops[p + 1]

C29_InitThenPollThenReplay ==
    /\ \A n \in CallsOf({"update"}) :
         /\ \A m \in CallsOf({"init"}) : m < n /\ log[m].ok
         /\ \A m \in SinkCalls : n < m
    /\ CallsOf({"update"}) # {} =>
         /\ \A p \in 0..(Len(shops) - 1) : Initialized("shop", shops, p)
         /\ \A p \in 0..(Len(rags) - 1) : Initialized("rag", rags, p)
    /\ SinkCalls # {} =>
         \A p \in 0..(Len(shops) - 1) : Polled(p)

C29_Witness ==
    /\ pc = "done"
    /\ Len(shops) = 2
    /\ Len(rags) = 2
    /\ \E n \in CallsOf({"update"}) : ~log[n].ok
    /\ \A p \in {0, 1} : /\ Polled(p)
                         /\ Initialized("shop", shops, p)
                         /\ Initialized("rag", rags, p)
                         /\ FinalizeCalls(p) # {}
    /\ CallsOf(FileOps) # {}

(***************************************************************************)
(* C30.  As claimed: every RAG is called for the files in the order in     *)
(* which they first came into aggregatedUpdates: by the Shop that first    *)
(* returned them, then by their place in what it returned; a file a later  *)
(* Shop returns again keeps its place.  (aggregatedUpdates is an object:   *)
(* a fileId that is an array index comes before every other key.)          *)
(***************************************************************************)
\* Where the file first came in: the call that first returned it, and its
\* place in what the call returned
FirstEntered(f) ==
    LET first == CHOOSE n \in Emitters(f) : \A m \in Emitters(f) : n <= m
    IN  <<first, IndexOf(log[first].updates, f)>>

EnteredBefore(f, g) ==
    \/ FirstEntered(f)[1] < FirstEntered(g)[1]
    \/ /\ FirstEntered(f)[1] = FirstEntered(g)[1]
       /\ FirstEntered(f)[2] < FirstEntered(g)[2]

C30_ReplayInInsertionOrder ==
    /\ \A a, b \in DOMAIN aggregatedUpdates :
         a < b => EnteredBefore(aggregatedUpdates[a].id, aggregatedUpdates[b].id)
    /\ \A m, n \in CallsOf(FileOps) :
         (m < n /\ log[m].pos = log[n].pos) => EnteredBefore(log[m].id, log[n].id)

(***************************************************************************)
(* C31.  As claimed: once the permissions are through, shops and rags are  *)
(* aligned with the lists of the configuration: shops[i] is the instance   *)
(* loaded for shopragData.Shops[i], rags[i] the one loaded for             *)
(* shopragData.RAGs[i]; every instance is initialized and polled under the *)
(* entry of its own plugin.                                                *)
(***************************************************************************)
\* The run is past the permission loops
PastPermissions ==
    \/ pc \in {"initShops", "initRags", "gather", "replay", "save", "done"}
    \/ pc = "crashed" /\ crash \in {"init", "finalize"}

\* insts[k] was loaded from the plugin that defs[k] names, in the order of loading
Aligned(defs, insts) ==
    /\ Len(insts) = Len(defs)
    /\ \A k \in DOMAIN insts : insts[k].plugin = defs[k]
    /\ \A k, l \in DOMAIN insts : k < l => insts[k].slot < insts[l].slot

C31_InstancesAligned ==
    /\ PastPermissions => /\ Aligned(shopragData.Shops, shops)
                          /\ Aligned(shopragData.RAGs, rags)
    /\ \A n \in CallsOf({"init", "update"}) : log[n].from = log[n].inst.plugin

(***************************************************************************)
(* C32.  As claimed: a denial removes the instance that was denied, and it *)
(* alone, from the list of the configuration and from the list of loaded   *)
(* instances; every other instance stays in both.                          *)
(***************************************************************************)
\* list without the element x
Without(list, x) == SelectSeq(list, LAMBDA e : e # x)

\* The denial of inst takes it and its entry of defs, and nothing else, from
\* the lists defs and insts
RemovesOnly(inst, defs, insts, defsAfter, instsAfter) ==
    /\ \E k \in DOMAIN insts : /\ insts[k] = inst
                               /\ defsAfter = Splice1(defs, k - 1)
    /\ Len(defsAfter) = Len(defs) - 1
    /\ instsAfter = Without(insts, inst)
    /\ Len(instsAfter) = Len(insts) - 1

C32_DenialRemovesThatInstance ==
    [][Denied(log, log') =>
         LET e == log'[Len(log')]
         IN  /\ shopragFile' = shopragData'
             /\ IF e.kind = "shop"
                THEN /\ RemovesOnly(e.inst, shopragData.Shops, shops,
                                    shopragData'.Shops, shops')
                     /\ shopragData'.RAGs = shopragData.RAGs
                     /\ rags' = rags
                ELSE /\ RemovesOnly(e.inst, shopragData.RAGs, rags,
                                    shopragData'.RAGs, rags')
                     /\ shopragData'.Shops = shopragData.Shops
                     /\ shops' = shops
      ]_vars

(***************************************************************************)
(* C33.  As claimed: the turn of a Shop in the loop over the Shops removes *)
(* no record of fileOrigins that names another Shop and gives no such      *)
(* record another shopIdentifier.                                          *)
(***************************************************************************)
\* update has just been called on a Shop
Polls(before, after) ==
    /\ Len(after) = Len(before) + 1
    /\ after[Len(after)].op = "update"

C33_OnlyOwnerTouchesRecord ==
    [][Polls(log, log') =>
         \A f \in DOMAIN lockData.fileOrigins :
             lockData.fileOrigins[f].shopIdentifier # log'[Len(log')].id =>
                 /\ f \in DOMAIN lockData'.fileOrigins
                 /\ lockData'.fileOrigins[f].shopIdentifier
                        = lockData.fileOrigins[f].shopIdentifier
      ]_vars

\* C33, amended: the turn of a Shop changes the records of the files its
\* update returned, and no other; for those it does not look at the
\* shopIdentifier of the record: a file returned as add or update gets a
\* record that names this Shop, a file returned as delete loses its record.
C33_ReturnedFilesAreTaken ==
    [][Polls(log, log') =>
         LET e == log'[Len(log')]
         IN  \A f \in FileIds :
                 IF e.ok /\ f \in IdsOf(e.updates)
                 THEN IF Get(e.updates, f).action = "delete"
                      THEN f \notin DOMAIN lockData'.fileOrigins
                      ELSE /\ f \in DOMAIN lockData'.fileOrigins
                           /\ lockData'.fileOrigins[f].shopIdentifier = e.id
                 ELSE Entry(lockData'.fileOrigins, f) = Entry(lockData.fileOrigins, f)
      ]_vars

C33_Witness ==
    \E m \in CallsOf({"update"}) : \E f \in IdsOf(log[m].updates) :
        /\ log[m].ok
        /\ f \in DOMAIN StartData.fileOrigins
        /\ StartData.fileOrigins[f].shopIdentifier # log[m].id
        /\ Emitters(f) = {m}
        /\ pc = "done"
        /\ IF Get(log[m].updates, f).action = "delete"
           THEN f \notin DOMAIN lockFile.data.fileOrigins
           ELSE lockFile.data.fileOrigins[f].shopIdentifier = log[m].id

(***************************************************************************)
(* C34.  A Shop whose update throws adds nothing to aggregatedUpdates and  *)
(* changes no record of fileOrigins: both are, after the Shop is skipped,  *)
(* what they were before it was polled.                                    *)
(***************************************************************************)
C34_FailedShopChangesNothing ==
    [][(Polls(log, log') /\ ~log'[Len(log')].ok) =>
         /\ aggregatedUpdates' = aggregatedUpdates
         /\ lockData'.fileOrigins = lockData.fileOrigins
         /\ log'[Len(log')].updates = <<>>
         /\ i' = i + 1
         /\ pc' = pc
      ]_vars

C34_Witness ==
    /\ pc = "done"
    /\ \E m, n \in CallsOf({"update"}) :
         /\ m < n
         /\ log[m].ok /\ log[m].updates # <<>>
         /\ ~log[n].ok
         /\ DOMAIN log[n].existingFiles # {}
         /\ aggregatedUpdates = log[m].updates
         /\ \A f \in DOMAIN log[n].existingFiles :
              /\ f \in DOMAIN lockFile.data.fileOrigins
              /\ lockFile.data.fileOrigins[f] = StartData.fileOrigins[f]

(***************************************************************************)
(* C35.  From no lock file on, and whatever runs follow, every record of   *)
(* fileOrigins names a Shop that has an entry in shopLastUsed, in the lock *)
(* data in memory and in the lock file.                                    *)
(***************************************************************************)
OwnersKnown(data) ==
    \A f \in DOMAIN data.fileOrigins :
        data.fileOrigins[f].shopIdentifier \in DOMAIN data.shopLastUsed

C35_OwnersHaveLastUsed ==
    /\ OwnersKnown(lockData)
    /\ OwnersKnown(loadOrInitializeLockJson(lockFile))

C35_Witness ==
    /\ runs = 2
    /\ pc = "done"
    /\ DOMAIN StartData.fileOrigins # {}
    /\ \E f \in DOMAIN lockFile.data.fileOrigins :
         LET owner == lockFile.data.fileOrigins[f].shopIdentifier
         IN  /\ \E n \in CallsOf({"update"}) : log[n].id = owner /\ ~log[n].ok
             /\ owner \in DOMAIN lockFile.data.shopLastUsed
    /\ \E f \in DOMAIN lockFile.data.fileOrigins :
         LET owner == lockFile.data.fileOrigins[f].shopIdentifier
         IN  /\ PolledOk(owner) # {}
             /\ f \notin DOMAIN StartData.fileOrigins
             /\ owner \in DOMAIN lockFile.data.shopLastUsed

(***************************************************************************)
(* C36.  With a clock that does not go back, an entry of shopLastUsed      *)
(* never gets a smaller value and is never removed, in the lock file and,  *)
(* within a run, in the lock data in memory: also when the Shop fails in a *)
(* later run or is no longer in shoprag.json.                              *)
(***************************************************************************)
\* Every key of before is a key of after, with a value that is not smaller
Advanced(before, after) ==
    \A id \in DOMAIN before : id \in DOMAIN after /\ after[id] >= before[id]

C36_LastUsedNeverGoesBack ==
    [][/\ Advanced(loadOrInitializeLockJson(lockFile).shopLastUsed,
                   loadOrInitializeLockJson(lockFile').shopLastUsed)
       /\ runs' = runs => Advanced(lockData.shopLastUsed, lockData'.shopLastUsed)
       /\ lockFile' # lockFile => lockFile'.data.shopLastUsed = lockData.shopLastUsed
      ]_vars

C36_Witness ==
    /\ runs = 2
    /\ pc = "done"
    /\ \E gone, failed \in DOMAIN StartData.shopLastUsed :
         /\ \A n \in CallsOf({"update"}) : log[n].id # gone
         /\ \E n \in CallsOf({"update"}) : log[n].id = failed /\ ~log[n].ok
         /\ lockFile.data.shopLastUsed[gone] = StartData.shopLastUsed[gone]
         /\ lockFile.data.shopLastUsed[failed] = StartData.shopLastUsed[failed]
    /\ Len(shopragFile.Shops) = 1

(***************************************************************************)
(* C37.  While the permissions are gone through, the list of a plugin in   *)
(* pluginPermissions only grows, at its end, and never holds a credential  *)
(* twice, also when two entries of a list name the same unofficial plugin; *)
(* the user is not asked for a credential that is in the list.             *)
(***************************************************************************)
NoDuplicates(list) == \A m, n \in DOMAIN list : m # n => list[m] # list[n]

\* The user has just been asked to allow a credential
Asks(before, after) ==
    /\ Len(after) = Len(before) + 1
    /\ after[Len(after)].op = "permit"

C37_AllowListGrows ==
    [][(pc = "permShops" \/ pc = "permRags") =>
         /\ \A name \in DOMAIN lockData.pluginPermissions :
              /\ name \in DOMAIN lockData'.pluginPermissions
              /\ IsPrefix(lockData.pluginPermissions[name],
                          lockData'.pluginPermissions[name])
         /\ \A name \in DOMAIN lockData'.pluginPermissions :
              NoDuplicates(lockData'.pluginPermissions[name])
         /\ Asks(log, log') =>
              LET e == log'[Len(log')]
              IN  /\ ~Listed(lockData, e.from, e.id)
                  /\ e.ok => lockData'.pluginPermissions[e.from]
                                = Append(Permissions(e.from), e.id)
                  /\ ~e.ok => lockData' = lockData
         /\ ~Asks(log, log') => lockData' = lockData
      ]_vars

C37_Witness ==
    /\ pc = "initShops"
    /\ shopragData.Shops = <<"UNOFFICIAL:x", "UNOFFICIAL:x">>
    /\ Len(shops) = 2
    /\ Cardinality(CallsOf({"permit"})) = 2
    /\ \A m \in CallsOf({"permit"}) : log[m].ok /\ log[m].inst = shops[1]
    /\ lockData.pluginPermissions["UNOFFICIAL:x"] = <<"k1", "k2">>

====
